---- MODULE Spec2Model ----
(***************************************************************************)
(* A model of audio_filenames.py: the text normalizer (clean_common,       *)
(* transform_screw_tapes, transform_screw_tracks), the rename planner      *)
(* (unique_destination, plan_rename) and the folder processor              *)
(* (process_folder).                                                       *)
(*                                                                         *)
(* Strings are sequences of one-character strings, so that every regular   *)
(* expression and every strip of the source is computed character by       *)
(* character.  A folder is a function from entry names to entry kinds      *)
(* ("file" or "dir") on a case-sensitive POSIX filesystem.                 *)
(***************************************************************************)
EXTENDS Integers, Sequences, FiniteSets, TLC

VARIABLES
    \* --- one call of process_folder(folder, mode, apply) ---
    fs,          \* the folder now: entry name -> "file" | "dir"
    fs0,         \* the folder when process_folder was called
    exists,      \* folder.exists()
    mode,        \* the mode argument
    apply,       \* the apply argument
    pc,          \* "start" | "loop" | "rename" | "done"
    snapshot,    \* sorted(folder.iterdir()), evaluated once
    idx,         \* number of snapshot entries the for loop has taken
    p,           \* loop variable p (an entry name)
    new_stem,    \* local new_stem
    planned,     \* local planned: None or [src, dest]
    branch,      \* which way the last iteration left the loop body
    changes,     \* local changes
    report,      \* the (src, dest) pairs printed so far
    renamed,     \* the (src, dest) pairs src.rename(dest) has executed
    outcome,     \* how the call ended
    \* --- the normalizer applied twice to one stem ---
    stem,        \* the input stem
    nfrag,       \* number of fragments the stem is built of
    nmode,       \* "tapes" | "tracks"
    npc,         \* "input" | "once" | "twice"
    out1,        \* normalize(stem, nmode)
    out2         \* normalize(out1, nmode)

fvars == <<fs, fs0, exists, mode, apply, pc, snapshot, idx, p, new_stem,
           planned, branch, changes, report, renamed, outcome>>
nvars == <<stem, nfrag, nmode, npc, out1, out2>>
vars == <<fvars, nvars>>

(***************************************************************************)
(* Characters                                                              *)
(***************************************************************************)

\* The printable ASCII characters in code-point order, from 32 (space); the
\* backslash and the backquote, which no name of the model holds, are kept
\* as placeholders.
Ascii ==
    <<" ", "!", "\"", "#", "$", "%", "&", "'", "(", ")", "*", "+", ",", "-",
      ".", "/", "0", "1", "2", "3", "4", "5", "6", "7", "8", "9", ":", ";",
      "<", "=", ">", "?", "@", "A", "B", "C", "D", "E", "F", "G", "H", "I",
      "J", "K", "L", "M", "N", "O", "P", "Q", "R", "S", "T", "U", "V", "W",
      "X", "Y", "Z", "[", "(backslash)", "]", "^", "_", "(backquote)", "a",
      "b", "c", "d", "e", "f", "g", "h", "i", "j", "k", "l", "m", "n", "o",
      "p", "q", "r", "s", "t", "u", "v", "w", "x", "y", "z", "{", "|", "}", "~">>

\* ord(c): the code point Python compares strings by.
Ord(c) ==
    IF c = "\t" THEN 9 ELSE 31 + (CHOOSE i \in DOMAIN Ascii : Ascii[i] = c)

\* The lower-case letter of every upper-case letter.
ToLower ==
    [A |-> "a", B |-> "b", C |-> "c", D |-> "d", E |-> "e", F |-> "f",
     G |-> "g", H |-> "h", I |-> "i", J |-> "j", K |-> "k", L |-> "l",
     M |-> "m", N |-> "n", O |-> "o", P |-> "p", Q |-> "q", R |-> "r",
     S |-> "s", T |-> "t", U |-> "u", V |-> "v", W |-> "w", X |-> "x",
     Y |-> "y", Z |-> "z"]

\* str.lower() and re.IGNORECASE on one character.
LowerChar(c) == IF c \in DOMAIN ToLower THEN ToLower[c] ELSE c

\* \s of the regular expressions and the default of str.strip().
IsSpace(c) == c \in {" ", "\t"}

\* \d of the regular expressions.
IsDigit(c) == c \in {"0", "1", "2", "3", "4", "5", "6", "7", "8", "9"}

(***************************************************************************)
(* String helpers                                                          *)
(***************************************************************************)

Lower(s) == [i \in DOMAIN s |-> LowerChar(s[i])]

From(s, i) == SubSeq(s, i, Len(s))

RECURSIVE SkipSpace(_, _)
\* Greedy \s* from position i: the first position >= i holding no whitespace.
SkipSpace(s, i) ==
    IF i <= Len(s) /\ IsSpace(s[i]) THEN SkipSpace(s, i + 1) ELSE i

RECURSIVE SkipDigits(_, _)
\* Greedy \d* from position i.
SkipDigits(s, i) ==
    IF i <= Len(s) /\ IsDigit(s[i]) THEN SkipDigits(s, i + 1) ELSE i

\* A literal of a case-insensitive pattern matches s at position i.
LitAt(s, i, lit) ==
    /\ i + Len(lit) - 1 <= Len(s)
    /\ Lower(SubSeq(s, i, i + Len(lit) - 1)) = Lower(lit)

RECURSIVE LStrip(_, _)
LStrip(s, chars) ==
    IF s # <<>> /\ Head(s) \in chars THEN LStrip(Tail(s), chars) ELSE s

RECURSIVE RStrip(_, _)
RStrip(s, chars) ==
    IF s # <<>> /\ s[Len(s)] \in chars
    THEN RStrip(SubSeq(s, 1, Len(s) - 1), chars)
    ELSE s

\* s.strip()
strip(s) == RStrip(LStrip(s, {" ", "\t"}), {" ", "\t"})

\* s.strip(" -")
strip_space_hyphen(s) == RStrip(LStrip(s, {" ", "-"}), {" ", "-"})

(***************************************************************************)
(* The regular expressions                                                 *)
(***************************************************************************)

\* BRACKET_ID_RE = \s*\[[^\]]+\]\s*$ matches s from position i.
BracketAt(s, i) ==
    LET j == SkipSpace(s, i)
        e == Len(RStrip(s, {" ", "\t"}))   \* position of the closing bracket
    IN  /\ j <= Len(s) /\ s[j] = "["
        /\ e >= j + 2
        /\ s[e] = "]"
        /\ \A k \in (j + 1) .. (e - 1) : s[k] # "]"

\* BRACKET_ID_RE.sub("", s): the leftmost match runs to the end of s.
BRACKET_ID_RE_sub(s) ==
    IF \E i \in 1 .. Len(s) : BracketAt(s, i)
    THEN LET i == CHOOSE i \in 1 .. Len(s) :
                    /\ BracketAt(s, i)
                    /\ \A k \in 1 .. (i - 1) : ~BracketAt(s, k)
         IN  SubSeq(s, 1, i - 1)
    ELSE s

\* DJS_COMPACT_RE = ^\s*DJScrew\s* : the position after the match, 0 if none.
DJS_COMPACT_RE_end(s) ==
    LET a == SkipSpace(s, 1)
        lit == <<"D", "J", "S", "c", "r", "e", "w">>
    IN  IF LitAt(s, a, lit) THEN SkipSpace(s, a + Len(lit)) ELSE 0

\* DJS_RE = ^\s*DJ\s*Screw\s* : the position after the match, 0 if none.
DJS_RE_end(s) ==
    LET a == SkipSpace(s, 1)
        dj == <<"D", "J">>
        screw == <<"S", "c", "r", "e", "w">>
        b == SkipSpace(s, a + Len(dj))
    IN  IF LitAt(s, a, dj) /\ LitAt(s, b, screw)
        THEN SkipSpace(s, b + Len(screw))
        ELSE 0

RECURSIVE WS_RE_sub(_)
\* WS_RE.sub(" ", s): every run of whitespace becomes one space.
WS_RE_sub(s) ==
    IF s = <<>> THEN <<>>
    ELSE IF IsSpace(Head(s))
         THEN <<" ">> \o WS_RE_sub(From(s, SkipSpace(s, 1)))
         ELSE <<Head(s)>> \o WS_RE_sub(Tail(s))

RECURSIVE HYPHEN_SPACING_RE_sub(_)
\* HYPHEN_SPACING_RE.sub(" - ", s): \s*-\s* matched left to right, greedily.
HYPHEN_SPACING_RE_sub(s) ==
    IF s = <<>> THEN <<>>
    ELSE LET j == SkipSpace(s, 1)
         IN  IF j <= Len(s) /\ s[j] = "-"
             THEN <<" ", "-", " ">>
                      \o HYPHEN_SPACING_RE_sub(From(s, SkipSpace(s, j + 1)))
             ELSE <<Head(s)>> \o HYPHEN_SPACING_RE_sub(Tail(s))

\* None, and the empty tuple a failed match or an absent plan is.
None == <<>>

\* A variant of CHAPTER_RE whose whitespace after the digits is optional.
CHAPTER_RE_digits_then_optional_space(s) ==
    LET head == <<"D", "J", " ", "S", "c", "r", "e", "w">>
        chap == <<"C", "h", "a", "p", "t", "e", "r">>
        a == Len(head) + 1
        b == SkipSpace(s, a)
        c == b + Len(chap)
        d == SkipSpace(s, c)
        e == SkipDigits(s, d)
        f == SkipSpace(s, e)
    IN  IF /\ LitAt(s, 1, head) /\ b > a
           /\ LitAt(s, b, chap) /\ d > c
           /\ e > d
        THEN <<SubSeq(s, d, e - 1), From(s, f)>>
        ELSE None

\* CHAPTER_RE.match(s) for ^DJ Screw\s+Chapter\s+(\d+)\s+(.*)$ :
\* groups 1 and 2, or None.
CHAPTER_RE_match(s) ==
    LET head == <<"D", "J", " ", "S", "c", "r", "e", "w">>
        chap == <<"C", "h", "a", "p", "t", "e", "r">>
        a == Len(head) + 1
        b == SkipSpace(s, a)
        c == b + Len(chap)
        d == SkipSpace(s, c)
        e == SkipDigits(s, d)
        f == SkipSpace(s, e)
    IN  IF /\ LitAt(s, 1, head) /\ b > a
           /\ LitAt(s, b, chap) /\ d > c
           /\ e > d /\ f > e
        THEN <<SubSeq(s, d, e - 1), From(s, f)>>
        ELSE None

(***************************************************************************)
(* Text normalizer                                                         *)
(***************************************************************************)

DJ_SCREW_ == <<"D", "J", " ", "S", "c", "r", "e", "w", " ">>

clean_common(s0) ==
    LET s1 == strip(s0)
        s2 == BRACKET_ID_RE_sub(s1)
        s3 == IF DJS_COMPACT_RE_end(s2) # 0
              THEN DJ_SCREW_ \o From(s2, DJS_COMPACT_RE_end(s2))
              ELSE s2
        s4 == IF DJS_RE_end(s3) # 0
              THEN DJ_SCREW_ \o From(s3, DJS_RE_end(s3))
              ELSE s3
        s5 == strip(WS_RE_sub(s4))
        s6 == HYPHEN_SPACING_RE_sub(s5)
    IN  strip_space_hyphen(s6)

transform_screw_tapes(s0) ==
    LET s == clean_common(s0)
        m == CHAPTER_RE_match(s)
    IN  IF m # None
        THEN <<"D", "J", " ", "S", "c", "r", "e", "w", " ", "-", " ",
               "C", "h", "a", "p", "t", "e", "r", " ">>
                 \o m[1] \o <<" ", "-", " ">>
                 \o strip_space_hyphen(strip(m[2]))
        ELSE s

transform_screw_tracks(s0) == clean_common(s0)

normalize(s, m) ==
    IF m = "tapes" THEN transform_screw_tapes(s) ELSE transform_screw_tracks(s)

(***************************************************************************)
(* Paths                                                                   *)
(***************************************************************************)

AUDIO_EXTS ==
    {<<".", "m", "p", "3">>, <<".", "f", "l", "a", "c">>,
     <<".", "m", "4", "a">>, <<".", "a", "a", "c">>, <<".", "o", "g", "g">>,
     <<".", "o", "p", "u", "s">>, <<".", "w", "a", "v">>}

\* name.rfind("."), counted from 1; 0 when the name holds no dot.
RFindDot(name) ==
    IF \E i \in DOMAIN name : name[i] = "."
    THEN CHOOSE i \in DOMAIN name :
            name[i] = "." /\ \A k \in DOMAIN name : name[k] = "." => k <= i
    ELSE 0

\* PurePath.suffix: a leading or a trailing dot starts no suffix.
suffix(name) ==
    LET i == RFindDot(name)
    IN  IF 1 < i /\ i < Len(name) THEN From(name, i) ELSE <<>>

\* PurePath.stem
stem_of(name) ==
    LET i == RFindDot(name)
    IN  IF 1 < i /\ i < Len(name) THEN SubSeq(name, 1, i - 1) ELSE name

Digits == <<"0", "1", "2", "3", "4", "5", "6", "7", "8", "9">>

RECURSIVE str(_)
\* str(i) of a non-negative integer.
str(i) ==
    IF i < 10 THEN <<Digits[i + 1]>>
    ELSE str(i \div 10) \o <<Digits[(i % 10) + 1]>>

RECURSIVE NameLess(_, _)
\* a < b for two names: strings compare by code point, a prefix sorts first.
NameLess(a, b) ==
    IF b = <<>> THEN FALSE
    ELSE IF a = <<>> THEN TRUE
    ELSE IF Head(a) # Head(b) THEN Ord(Head(a)) < Ord(Head(b))
    ELSE NameLess(Tail(a), Tail(b))

RECURSIVE sorted(_)
\* sorted(S) as a sequence.
sorted(S) ==
    IF S = {} THEN <<>>
    ELSE LET least == CHOOSE a \in S : \A b \in S \ {a} : NameLess(a, b)
         IN  <<least>> \o sorted(S \ {least})

(***************************************************************************)
(* Rename planner                                                          *)
(***************************************************************************)

\* Path.exists() of an entry of the folder.
path_exists(name) == name \in DOMAIN fs

\* Path.is_file()
is_file(name) == name \in DOMAIN fs /\ fs[name] = "file"

\* f"{base} ({i}){ext}"
numbered(base, ext, i) == base \o <<" ", "(">> \o str(i) \o <<")">> \o ext

RECURSIVE first_free(_, _, _)
\* The while loop of unique_destination, entered with i.
first_free(base, ext, i) ==
    IF ~path_exists(numbered(base, ext, i))
    THEN numbered(base, ext, i)
    ELSE first_free(base, ext, i + 1)

\* A variant of unique_destination that never looks at the folder.
unique_destination_unchecked(dest) == dest

unique_destination(dest) ==
    IF ~path_exists(dest) THEN dest
    ELSE first_free(stem_of(dest), suffix(dest), 1)

\* A variant of plan_rename without the test for an unchanged name.
plan_rename_always(src, new_name) ==
    <<src, unique_destination(new_name \o Lower(suffix(src)))>>

plan_rename(src, new_name) ==
    LET dest == new_name \o Lower(suffix(src))
    IN  IF dest = src THEN None ELSE <<src, unique_destination(dest)>>

(***************************************************************************)
(* Folder processor                                                        *)
(***************************************************************************)

\* A variant of has_audio_suffix that accepts every suffix.
has_any_suffix(name) == TRUE

\* p.suffix.lower() in AUDIO_EXTS
has_audio_suffix(name) == Lower(suffix(name)) \in AUDIO_EXTS

\* A variant of rename_follows that ignores the apply argument.
rename_follows_always == TRUE

\* `if apply:` after a plan is reported.
rename_follows == apply

\* The entry names a folder of the model may hold.
NamePool ==
    {
      <<"a", " ", "[", "x", "]", ".", "m", "p", "3">>,
      <<"a", " ", "[", "x", "]", "[", "y", "]", ".", "m", "p", "3">>,
      <<"a", "-", ".", "m", "p", "3">>,
      <<"a", ".", "m", "p", "3">>,
      <<"a", " ", "(", "1", ")", ".", "m", "p", "3">>,
      <<"a", ".", "M", "P", "3">>,
      <<"a", "-", ".", "j", "p", "g">>,
      <<"[", "x", "]", ".", "m", "p", "3">>,
      <<".", "m", "p", "3">>,
      <<"D", "J", "S", "c", "r", "e", "w", " ", "C", "h", "a", "p", "t", "e", "r", " ", "5", " ", "x", "-", "y", ".", "m", "p", "3">>
    }

MaxEntries == 3

Kinds == {"file", "dir"}

Modes == {"tapes", "tracks"}

\* The arguments process_folder is called with; "both" is a value of --only
\* that is no mode.
ModeArgs == Modes \cup {"both"}

Folders ==
    UNION {[S -> Kinds] : S \in {T \in SUBSET NamePool : Cardinality(T) <= MaxEntries}}

NormIdle ==
    /\ stem = <<>> /\ nfrag = 0 /\ nmode = "tapes" /\ npc = "idle"
    /\ out1 = <<>> /\ out2 = <<>>

Init ==
    /\ exists \in BOOLEAN
    /\ fs0 \in Folders
    /\ ~exists => fs0 = <<>>
    /\ fs = fs0
    /\ mode \in ModeArgs
    /\ apply \in BOOLEAN
    /\ pc = "start"
    /\ snapshot = <<>> /\ idx = 0
    /\ p = None /\ new_stem = None /\ planned = None
    /\ branch = "none"
    /\ changes = 0
    /\ report = <<>> /\ renamed = <<>>
    /\ outcome = "running"
    /\ NormIdle

\* if not folder.exists(): print("Skip (missing)"); return
SkipMissing ==
    /\ pc = "start" /\ ~exists
    /\ pc' = "done" /\ outcome' = "skipped"
    /\ UNCHANGED <<fs, fs0, exists, mode, apply, snapshot, idx, p, new_stem,
                   planned, branch, changes, report, renamed, nvars>>

\* changes = 0; sorted(folder.iterdir()) is evaluated once, before the loop.
Scan ==
    /\ pc = "start" /\ exists
    /\ snapshot' = sorted(DOMAIN fs)
    /\ idx' = 0 /\ changes' = 0
    /\ pc' = "loop"
    /\ UNCHANGED <<fs, fs0, exists, mode, apply, p, new_stem, planned, branch,
                   report, renamed, outcome, nvars>>

Taking == pc = "loop" /\ idx < Len(snapshot)

\* if not p.is_file(): continue
SkipNotFile ==
    /\ Taking
    /\ LET e == snapshot[idx + 1]
       IN  /\ ~is_file(e)
           /\ p' = e
    /\ idx' = idx + 1 /\ branch' = "not_file"
    /\ UNCHANGED <<fs, fs0, exists, mode, apply, pc, snapshot, new_stem,
                   planned, changes, report, renamed, outcome, nvars>>

\* if p.suffix.lower() not in AUDIO_EXTS: continue
SkipNotAudio ==
    /\ Taking
    /\ LET e == snapshot[idx + 1]
       IN  /\ is_file(e) /\ ~has_audio_suffix(e)
           /\ p' = e
    /\ idx' = idx + 1 /\ branch' = "not_audio"
    /\ UNCHANGED <<fs, fs0, exists, mode, apply, pc, snapshot, new_stem,
                   planned, changes, report, renamed, outcome, nvars>>

\* else: raise ValueError(f"Unknown mode: {mode}")
RaiseUnknownMode ==
    /\ Taking
    /\ LET e == snapshot[idx + 1]
       IN  /\ is_file(e) /\ has_audio_suffix(e)
           /\ mode \notin Modes
           /\ p' = e
    /\ idx' = idx + 1 /\ branch' = "raise"
    /\ pc' = "done" /\ outcome' = "ValueError"
    /\ UNCHANGED <<fs, fs0, exists, mode, apply, snapshot, new_stem, planned,
                   changes, report, renamed, nvars>>

\* planned = plan_rename(p, new_stem); if not planned: continue
KeepName ==
    /\ Taking
    /\ LET e == snapshot[idx + 1]
           n == normalize(stem_of(e), mode)
       IN  /\ is_file(e) /\ has_audio_suffix(e)
           /\ mode \in Modes
           /\ p' = e /\ new_stem' = n
           /\ planned' = plan_rename(e, n)
    /\ planned' = None
    /\ idx' = idx + 1 /\ branch' = "no_plan"
    /\ UNCHANGED <<fs, fs0, exists, mode, apply, pc, snapshot, changes, report,
                   renamed, outcome, nvars>>

\* src, dest = planned; changes += 1; print(...); if apply: ...
Plan ==
    /\ Taking
    /\ LET e == snapshot[idx + 1]
           n == normalize(stem_of(e), mode)
       IN  /\ is_file(e) /\ has_audio_suffix(e)
           /\ mode \in Modes
           /\ p' = e /\ new_stem' = n
           /\ planned' = plan_rename(e, n)
    /\ planned' # None
    /\ report' = Append(report, planned')
    /\ idx' = idx + 1 /\ branch' = "planned"
    /\ changes' = changes + 1
    /\ pc' = IF rename_follows THEN "rename" ELSE "loop"
    /\ UNCHANGED <<fs, fs0, exists, mode, apply, snapshot, renamed, outcome,
                   nvars>>

\* os.rename(src, dest) on POSIX: the entry src becomes the entry dest, taking
\* the place of a file of that name; a missing src or a directory at dest is
\* an error.
rename_allowed(src, dest) ==
    /\ src \in DOMAIN fs
    /\ dest \in DOMAIN fs => fs[dest] = "file" /\ fs[src] = "file"

\* src.rename(dest) succeeds.
Rename ==
    /\ pc = "rename"
    /\ LET src == planned[1]
           dest == planned[2]
       IN  /\ rename_allowed(src, dest)
           /\ fs' = [n \in (DOMAIN fs \ {src}) \cup {dest} |->
                        IF n = dest THEN fs[src] ELSE fs[n]]
    /\ renamed' = Append(renamed, planned)
    /\ pc' = "loop"
    /\ UNCHANGED <<fs0, exists, mode, apply, snapshot, idx, p, new_stem,
                   planned, branch, changes, report, outcome, nvars>>

\* A variant of RenameFails that goes on with the next entry.
RenameFails_and_continues ==
    /\ pc = "rename"
    /\ pc' = "loop" /\ outcome' = "OSError"
    /\ UNCHANGED <<fs, fs0, exists, mode, apply, snapshot, idx, p, new_stem,
                   planned, branch, changes, report, renamed, nvars>>

\* src.rename(dest) raises OSError (permission, I/O, a directory in the way):
\* nothing catches it, the call ends there.
RenameFails ==
    /\ pc = "rename"
    /\ pc' = "done" /\ outcome' = "OSError"
    /\ UNCHANGED <<fs, fs0, exists, mode, apply, snapshot, idx, p, new_stem,
                   planned, branch, changes, report, renamed, nvars>>

\* The summary printed after the loop.
Summary ==
    /\ pc = "loop" /\ idx = Len(snapshot)
    /\ outcome' = IF changes = 0 THEN "no_changes"
                  ELSE IF apply THEN "applied" ELSE "planned"
    /\ pc' = "done"
    /\ UNCHANGED <<fs, fs0, exists, mode, apply, snapshot, idx, p, new_stem,
                   planned, branch, changes, report, renamed, nvars>>

Next ==
    \/ SkipMissing
    \/ Scan
    \/ SkipNotFile
    \/ SkipNotAudio
    \/ RaiseUnknownMode
    \/ KeepName
    \/ Plan
    \/ Rename
    \/ RenameFails
    \/ Summary

Spec == Init /\ [][Next]_vars

(***************************************************************************)
(* The normalizer on bounded stems                                         *)
(***************************************************************************)

\* The pieces the stems of the model are built of.
Fragments ==
    {
      <<"D", "J", " ", "S", "c", "r", "e", "w">>,
      <<"d", "j", "s", "c", "r", "e", "w">>,
      <<" ", "C", "h", "a", "p", "t", "e", "r", " ", "4">>,
      <<"2">>,
      <<" ">>,
      <<"\t">>,
      <<"-">>,
      <<"a">>,
      <<" ", "a">>,
      <<"[", "x", "]">>
    }

MaxFrags == 4

FolderIdle ==
    /\ fs = <<>> /\ fs0 = <<>> /\ exists = FALSE
    /\ mode = "tapes" /\ apply = FALSE /\ pc = "idle"
    /\ snapshot = <<>> /\ idx = 0
    /\ p = None /\ new_stem = None /\ planned = None
    /\ branch = "none" /\ changes = 0
    /\ report = <<>> /\ renamed = <<>>
    /\ outcome = "idle"

InitNorm ==
    /\ stem = <<>> /\ nfrag = 0
    /\ nmode \in Modes
    /\ npc = "input"
    /\ out1 = <<>> /\ out2 = <<>>
    /\ FolderIdle

\* The stem grows by one fragment.
AddFragment ==
    /\ npc = "input" /\ nfrag < MaxFrags
    /\ \E f \in Fragments : stem' = stem \o f
    /\ nfrag' = nfrag + 1
    /\ UNCHANGED <<nmode, npc, out1, out2, fvars>>

\* new_stem = normalize(old_stem, mode)
NormalizeOnce ==
    /\ npc = "input"
    /\ out1' = normalize(stem, nmode)
    /\ npc' = "once"
    /\ UNCHANGED <<stem, nfrag, nmode, out2, fvars>>

\* The normalizer applied to its own result.
NormalizeTwice ==
    /\ npc = "once"
    /\ out2' = normalize(out1, nmode)
    /\ npc' = "twice"
    /\ UNCHANGED <<stem, nfrag, nmode, out1, fvars>>

NextNorm ==
    \/ AddFragment
    \/ NormalizeOnce
    \/ NormalizeTwice

SpecNorm == InitNorm /\ [][NextNorm]_vars

(***************************************************************************)
(* Properties of the normalizer (checked under SpecNorm)                   *)
(***************************************************************************)

\* C1: normalize is idempotent: for every stem and mode, normalizing the
\* normalized stem again gives the normalized stem.
C1_Idempotent == npc = "twice" => out2 = out1

ChapterOnly == <<"D", "J", " ", "S", "c", "r", "e", "w", " ", "C", "h", "a", "p", "t", "e", "r", " ", "4", "2">>

ChapterArtifact ==
    <<"D", "J", " ", "S", "c", "r", "e", "w", " ", "-", " ", "C", "h", "a", "p", "t", "e", "r", " ", "4", "2", " ", "-", " ">>

\* C9 as stated: in tapes mode the stem "DJ Screw Chapter 42" matches the
\* chapter pattern with an empty remainder and comes back with the trailing
\* separator, as "DJ Screw - Chapter 42 - ".
C9_EmptyRemainderArtifact ==
    (npc # "input" /\ nmode = "tapes" /\ stem = ChapterOnly)
        => out1 = ChapterArtifact

\* C9 as amended: in tapes mode the chapter pattern never matches with a
\* remainder that is empty after trimming, so the result never ends with the
\* separator; a stem without a match comes back as clean_common left it, and
\* "DJ Screw Chapter 42" (no whitespace after the digits) is such a stem.
C9_RemainderNeverEmpty ==
    (npc # "input" /\ nmode = "tapes") =>
        LET s == clean_common(stem)
            m == CHAPTER_RE_match(s)
        IN  /\ m # None =>
                /\ strip_space_hyphen(strip(m[2])) # <<>>
                /\ out1[Len(out1)] \notin {" ", "-"}
            /\ m = None => out1 = s
            /\ stem = ChapterOnly => m = None /\ out1 = ChapterOnly

\* The stem "DJ Screw Chapter 42" has been normalized in tapes mode.
C9_Witness ==
    npc = "once" /\ nmode = "tapes" /\ stem = ChapterOnly /\ out1 = ChapterOnly

(***************************************************************************)
(* Properties of process_folder (checked under Spec)                       *)
(***************************************************************************)

Sources(plans) == {plans[i][1] : i \in DOMAIN plans}

\* The candidate destination plan_rename builds for the current entry.
Candidate == new_stem \o Lower(suffix(p))

\* plan_rename has just been called for p, and the folder is as it was then.
JustPlanned == pc = "rename" \/ (~apply /\ branch = "planned")

C3_PlannerCollisionSafe ==
    JustPlanned =>
        LET ext == Lower(suffix(p))
        IN  /\ planned[2] \notin DOMAIN fs
            /\ Candidate \in DOMAIN fs =>
                 \E N \in 1 .. (Cardinality(DOMAIN fs) + 1) :
                    /\ planned[2] = numbered(new_stem, ext, N)
                    /\ \A k \in 1 .. (N - 1) :
                          numbered(new_stem, ext, k) \in DOMAIN fs

\* C4: the plans reported in one pass, in dry-run as in apply mode, have
\* pairwise distinct destinations.
C4_DistinctDestinations ==
    \A i, j \in DOMAIN report : i # j => report[i][2] # report[j][2]

\* C5: with apply = false the folder is in every state what it was before
\* the pass, and no rename is executed.
C5_DryRunLeavesFolder ==
    ~apply => fs = fs0 /\ DOMAIN fs = DOMAIN fs0 /\ renamed = <<>>

\* A dry-run pass ended having reported plans.
C5_Witness == ~apply /\ pc = "done" /\ outcome = "planned" /\ changes > 0

\* An entry that process_folder may plan: a regular file with an audio
\* extension, when the pass began.
AudioFile0(name) ==
    /\ name \in DOMAIN fs0 /\ fs0[name] = "file"
    /\ Lower(suffix(name)) \in AUDIO_EXTS

\* C6: an entry that is no regular file, or whose extension is no audio
\* extension, is never the source of a plan or of a rename, and keeps its
\* name (and kind) through the pass.
C6_OnlyAudioFiles ==
    /\ \A s \in Sources(report) \cup Sources(renamed) : AudioFile0(s)
    /\ \A n \in DOMAIN fs0 :
          ~AudioFile0(n) => n \in DOMAIN fs /\ fs[n] = fs0[n]

\* An apply pass renamed a file in a folder that also holds a directory and a
\* file without an audio extension.
C6_Witness ==
    /\ apply /\ pc = "done" /\ renamed # <<>>
    /\ \E n \in DOMAIN fs0 : fs0[n] = "dir"
    /\ \E n \in DOMAIN fs0 :
          fs0[n] = "file" /\ Lower(suffix(n)) \notin AUDIO_EXTS

\* What C7 says of the failure itself: the call ends with the error, the
\* failed plan is the last one reported, and no later entry is touched.
AbortsAtFailure ==
    /\ pc = "done"
    /\ report = Append(renamed, planned)
    /\ planned[1] \in DOMAIN fs
    /\ \A j \in (idx + 1) .. Len(snapshot) :
          /\ snapshot[j] \notin Sources(report)
          /\ snapshot[j] \in DOMAIN fs /\ fs[snapshot[j]] = fs0[snapshot[j]]

\* C7 as stated: when a rename fails the call aborts, and every rename
\* executed before stays applied: its destination exists, its source does
\* not.
C7_AbortKeepsEarlierRenames ==
    outcome = "OSError" =>
        /\ AbortsAtFailure
        /\ \A i \in DOMAIN renamed :
              /\ renamed[i][2] \in DOMAIN fs
              /\ renamed[i][1] \notin DOMAIN fs

\* C7 as amended: when a rename fails the call aborts, and every rename
\* executed before stays applied: its destination exists, and its source
\* name is absent unless a later rename of the pass gave that name to
\* another file.
C7_AbortKeepsEarlierDestinations ==
    outcome = "OSError" =>
        /\ AbortsAtFailure
        /\ \A i \in DOMAIN renamed :
              /\ renamed[i][2] \in DOMAIN fs
              /\ renamed[i][1] \in DOMAIN fs =>
                    \E j \in DOMAIN renamed : j > i /\ renamed[j][2] = renamed[i][1]

\* A rename failed after an earlier one succeeded, with entries still to
\* come.
C7_Witness ==
    outcome = "OSError" /\ renamed # <<>> /\ idx < Len(snapshot)

C10_NothingLostOrOverwritten ==
    /\ pc \in {"loop", "rename", "done"} /\ exists
          => snapshot = sorted(DOMAIN fs0)
    /\ pc = "rename" =>
          planned[1] \in DOMAIN fs /\ planned[2] \notin DOMAIN fs
    /\ Cardinality(DOMAIN fs) = Cardinality(DOMAIN fs0)
    /\ \A i, j \in DOMAIN renamed : i # j => renamed[i][1] # renamed[j][1]

\* An apply pass ended having renamed two files, one of them onto a name
\* that another entry held when the pass began.
C10_Witness ==
    /\ apply /\ pc = "done" /\ outcome = "applied" /\ Len(renamed) >= 2
    /\ \E i \in DOMAIN renamed : renamed[i][2] \in DOMAIN fs0

====
